---- MODULE Spec2Model ----
(***************************************************************************)
(* A model of package iso8601 (duration.go): ParseDuration and             *)
(* FormatDuration over 64-bit nanosecond counts.                           *)
(*                                                                         *)
(* TLC's integers are 32 bits wide, so a uint64 is a little-endian         *)
(* sequence of base-10000 limbs without high zero limbs (zero is << >>),   *)
(* and every uint64 operation of the code is an operator on such           *)
(* sequences that reduces modulo 2^64 where Go does.  A string is a TLA+   *)
(* string; a byte of it is a string of length one.                         *)
(*                                                                         *)
(* A value that a step computes and uses more than once is handed to the   *)
(* next operator as a parameter, so that it is computed once.              *)
(***************************************************************************)
EXTENDS Integers, Sequences, FiniteSets, TLC

(***************************************************************************)
(* Natural numbers of any size.  Carries and borrows are found by          *)
(* look-ahead; a division by a power of two is a multiplication by the     *)
(* power of five and a shift of decimal digits.                            *)
(***************************************************************************)
\* the last of the values vs, which are computed in the order written
InOrder(vs) == vs[Len(vs)]

Limb(a, i) == IF 1 <= i /\ i <= Len(a) THEN a[i] ELSE 0

Max(S) == CHOOSE x \in S : \A y \in S : y <= x
Min(S) == CHOOSE x \in S : \A y \in S : x <= y

\* the sequence f[1], ..., f[n] of a function f on 1..n
Tuple(f, n) == [k \in 1..n |-> f[k]] \o << >>

\* a without its high zero limbs
Norm(a) ==
    IF a = << >> \/ a[Len(a)] # 0 THEN a
    ELSE IF \A i \in 1..Len(a) : a[i] = 0 THEN << >>
    ELSE SubSeq(a, 1, Max({i \in 1..Len(a) : a[i] # 0}))

\* the number sum of v[k] * 10000^(k-1), for a sequence v of values from 0 to
\* 19998: limb k takes a carry when a limb below it overflows and every limb
\* between is 9999
CarryOnes(v) ==
    IF \A j \in 1..Len(v) : v[j] < 10000 THEN Norm(v)
    ELSE Norm(Tuple([k \in 1..(Len(v) + 1) |->
                        (Limb(v, k)
                           + (IF \E j \in 1..(k - 1) :
                                    v[j] >= 10000 /\ \A i \in (j + 1)..(k - 1) : v[i] = 9999
                              THEN 1 ELSE 0)) % 10000],
                    Len(v) + 1))

\* the same for a sequence u of n values from 0 to 29999
CarryTwo(u, n) ==
    InOrder(<<u, CarryOnes(Tuple([k \in 1..(n + 1) |->
                                     (Limb(u, k) % 10000) + (Limb(u, k - 1) \div 10000)],
                                 n + 1))>>)

\* the number sum of s[k] * 10000^(k-1), for s on 1..n with values from 0 to 2^31 - 1
Carry(s, n) ==
    LET S(k) == IF 1 <= k /\ k <= n THEN s[k] ELSE 0
    IN  CarryTwo(Tuple([k \in 1..(n + 2) |->
                           (S(k) % 10000) + ((S(k - 1) \div 10000) % 10000)
                             + (S(k - 2) \div 100000000)], n + 2),
                 n + 2)

BigOfInt(n) == Norm(<<n % 10000, (n \div 10000) % 10000, n \div 100000000>>)

\* the integer of a number below 2^31
BigToInt(a) == Limb(a, 1) + (10000 * Limb(a, 2)) + (100000000 * Limb(a, 3))

BigAdd(a, b) ==
    IF a = << >> THEN b
    ELSE IF b = << >> THEN a
    ELSE CarryOnes(Tuple([k \in 1..(IF Len(a) >= Len(b) THEN Len(a) ELSE Len(b)) |->
                             Limb(a, k) + Limb(b, k)],
                         IF Len(a) >= Len(b) THEN Len(a) ELSE Len(b)))

\* a - b, for a >= b
BigSub(a, b) ==
    IF b = << >> THEN a
    ELSE IF a = b THEN << >>
    ELSE LET diff(k) == a[k] - Limb(b, k)
         IN  Norm(Tuple([k \in 1..Len(a) |->
                            (diff(k) + 10000
                               - (IF \E j \in 1..(k - 1) :
                                        diff(j) < 0 /\ \A i \in (j + 1)..(k - 1) : diff(i) = 0
                                  THEN 1 ELSE 0)) % 10000],
                        Len(a)))

\* a < b
BigLt(a, b) ==
    IF Len(a) # Len(b) THEN Len(a) < Len(b)
    ELSE \E i \in 1..Len(a) : a[i] < b[i] /\ \A j \in (i + 1)..Len(a) : a[j] = b[j]
BigLe(a, b) == ~BigLt(b, a)
BigGt(a, b) == BigLt(b, a)

\* a * c for a small c (0 <= c <= 200000)
BigMulSmall(a, c) ==
    IF a = << >> \/ c = 0 THEN << >>
    ELSE Carry([k \in 1..Len(a) |-> a[k] * c], Len(a))

RECURSIVE Dot(_, _, _, _, _)
\* acc and the sum of x[j] * y[k + 1 - j] over j from i to Len(x), six terms a pass
Dot(x, y, k, i, acc) ==
    IF i > Len(x) THEN acc
    ELSE InOrder(<<acc,
                   Dot(x, y, k, i + 6,
                       acc + (x[i] * Limb(y, k + 1 - i))
                           + (Limb(x, i + 1) * Limb(y, k - i))
                           + (Limb(x, i + 2) * Limb(y, k - 1 - i))
                           + (Limb(x, i + 3) * Limb(y, k - 2 - i))
                           + (Limb(x, i + 4) * Limb(y, k - 3 - i))
                           + (Limb(x, i + 5) * Limb(y, k - 4 - i)))>>)

\* a * b, the shorter of the two 21 limbs long at most
BigMul(a, b) ==
    IF a = << >> \/ b = << >> THEN << >>
    ELSE LET x == IF Len(a) <= Len(b) THEN a ELSE b
             y == IF Len(a) <= Len(b) THEN b ELSE a
         IN  Carry([k \in 1..(Len(a) + Len(b)) |-> Dot(x, y, k, 1, 0)], Len(a) + Len(b))

RECURSIVE DivLimbs(_, _, _)
\* st: the limbs q found so far, the limb i to divide next, the remainder rem
DivLimbs(a, c, st) ==
    IF st.i = 0 THEN <<Norm(st.q), st.rem>>
    ELSE DivLimbs(a, c, [q   |-> <<((st.rem * 10000) + a[st.i]) \div c>> \o st.q,
                         i   |-> st.i - 1,
                         rem |-> ((st.rem * 10000) + a[st.i]) % c])

\* <<a \div c, a % c>> for a small c (1 <= c <= 200000); the remainder is an integer
BigDivSmall(a, c) ==
    IF a = << >> THEN <<<< >>, 0>>
    ELSE DivLimbs(a, c, [q |-> << >>, i |-> Len(a), rem |-> 0])

\* 10^r for r in 0..3
TenTo(r) == <<1, 10, 100, 1000>>[r + 1]

\* 10^s
Pow10(s) == [i \in 1..((s \div 4) + 1) |-> IF i = (s \div 4) + 1 THEN TenTo(s % 4) ELSE 0]
            \o << >>

\* a \div 10^s: decimal digits dropped
DropDigits(a, s) ==
    IF a = << >> \/ Len(a) <= s \div 4 THEN << >>
    ELSE IF s = 0 THEN a
    ELSE Norm(Tuple([i \in 1..(Len(a) - (s \div 4)) |->
                        (a[i + (s \div 4)] \div TenTo(s % 4))
                          + ((Limb(a, i + (s \div 4) + 1) % TenTo(s % 4))
                               * (10000 \div TenTo(s % 4)))],
                    Len(a) - (s \div 4)))

\* a % 10^s: decimal digits kept
LowDigits(a, s) ==
    IF a = << >> \/ s = 0 THEN << >>
    ELSE Norm(Tuple([i \in 1..((s \div 4) + 1) |->
                        IF i <= s \div 4 THEN Limb(a, i) ELSE Limb(a, i) % TenTo(s % 4)],
                    (s \div 4) + 1))

\* the number of decimal digits of a
Digits(a) ==
    IF a = << >> THEN 0
    ELSE (4 * (Len(a) - 1))
           + (IF a[Len(a)] >= 1000 THEN 4 ELSE IF a[Len(a)] >= 100 THEN 3
              ELSE IF a[Len(a)] >= 10 THEN 2 ELSE 1)

\* the number of bits of a is between BitsLow(a) and BitsHigh(a)
BitsLow(a)  == IF a = << >> THEN 0 ELSE (((Digits(a) - 1) * 3321) \div 1000) + 1
BitsHigh(a) == ((Digits(a) * 3322) \div 1000) + 1

\* 5^0, ..., 5^15
Pow5Low ==
    <<<<1>>,
      <<5>>,
      <<25>>,
      <<125>>,
      <<625>>,
      <<3125>>,
      <<5625, 1>>,
      <<8125, 7>>,
      <<625, 39>>,
      <<3125, 195>>,
      <<5625, 976>>,
      <<8125, 4882>>,
      <<625, 4414, 2>>,
      <<3125, 2070, 12>>,
      <<5625, 351, 61>>,
      <<8125, 1757, 305>>>>

\* 5^0, 5^16, 5^32, ..., 5^128
Pow5High ==
    <<<<1>>,
      <<625, 8789, 1525>>,
      <<625, 6289, 3869, 4365, 8306, 232>>,
      <<625, 3789, 6213, 9355, 92, 8005, 3678, 5271, 35>>,
      <<625, 1289, 8557, 4970, 43, 7264, 7003, 5221, 2427, 1086, 4210, 5>>,
      <<625, 8789, 900, 1211, 5658, 2853, 6996, 6920, 1408, 7487, 276, 2553, 8061, 8271>>,
      <<625, 6289, 3244, 8076, 4436, 9617, 1302, 7477, 5796, 4524, 5704, 5876, 8886, 3618, 4835, 1774, 1262>>,
      <<625, 3789, 5588, 5566, 3879, 2399, 8195, 1538, 6482, 8101, 1853, 9273, 2584, 7794, 559, 5853, 8723, 9443, 5929, 192>>,
      <<625, 1289, 7932, 3681, 1486, 6043, 6569, 8792, 3771, 1880, 9302, 3891, 4666, 1945, 5614, 4305, 8413, 9921, 1876, 557, 5877, 3873, 29>>>>

\* 5^s for s up to 143
Pow5(s) == BigMul(Pow5Low[(s % 16) + 1], Pow5High[(s \div 16) + 1])

\* 2^0, ..., 2^15
Pow2Low ==
    <<<<1>>,
      <<2>>,
      <<4>>,
      <<8>>,
      <<16>>,
      <<32>>,
      <<64>>,
      <<128>>,
      <<256>>,
      <<512>>,
      <<1024>>,
      <<2048>>,
      <<4096>>,
      <<8192>>,
      <<6384, 1>>,
      <<2768, 3>>>>

\* 2^0, 2^16, 2^32, ..., 2^176
Pow2High ==
    <<<<1>>,
      <<5536, 6>>,
      <<7296, 9496, 42>>,
      <<656, 7671, 4749, 281>>,
      <<1616, 955, 737, 6744, 1844>>,
      <<6176, 7470, 6291, 9614, 2581, 2089, 1>>,
      <<336, 4395, 5935, 4337, 1426, 1625, 9228, 7>>,
      <<96, 2922, 4963, 8530, 2762, 5348, 6858, 9229, 51>>,
      <<1456, 6821, 4317, 4607, 6337, 4634, 938, 6692, 2823, 340>>,
      <<416, 598, 3615, 2648, 1827, 5357, 3141, 3062, 1985, 745, 2230>>,
      <<2976, 3254, 6559, 3019, 1628, 8327, 3684, 1820, 9029, 7330, 163, 4615, 1>>,
      <<5136, 3647, 1951, 6171, 2397, 8943, 9196, 9668, 6473, 8053, 411, 9713, 5780, 9>>>>

\* 2^s for s up to 191
Pow2(s) == BigMul(Pow2Low[(s % 16) + 1], Pow2High[(s \div 16) + 1])

\* a \div 2^s: a * 5^s without its s low decimal digits
ShiftRight(a, s) ==
    IF a = << >> \/ s = 0 THEN a
    ELSE DropDigits(BigMul(a, Pow5(s)), s)
ShiftLeft(a, s) ==
    IF a = << >> \/ s = 0 THEN a
    ELSE BigMul(a, Pow2(s))

\* the number of bits of a, a # 0
Bits(a) == Min({b \in BitsLow(a)..BitsHigh(a) : BigLt(a, Pow2(b))})

DigitVal(c) ==
    CASE c = "0" -> 0 [] c = "1" -> 1 [] c = "2" -> 2 [] c = "3" -> 3
      [] c = "4" -> 4 [] c = "5" -> 5 [] c = "6" -> 6 [] c = "7" -> 7
      [] c = "8" -> 8 [] c = "9" -> 9

DigitChar(v) == SubSeq("0123456789", v + 1, v + 1)

IsDigit(c) == c \in {"0", "1", "2", "3", "4", "5", "6", "7", "8", "9"}

\* the largest c with b * c <= r, for b <= r < 10000 * b and b's high limb 5000
\* or more: the quotient top of the high limbs is c, c + 1 or c + 2
QuotientFrom(r, b, top) ==
    Max({c \in {k \in (top - 2)..top : k >= 1} : BigLe(BigMulSmall(b, c), r)})
QuotientLimb(r, b) ==
    IF BigLt(r, b) THEN 0
    ELSE LET est == ((Limb(r, Len(b) + 1) * 10000) + Limb(r, Len(b))) \div b[Len(b)]
         IN  QuotientFrom(r, b, IF est > 9999 THEN 9999 ELSE est)

RECURSIVE LongDiv(_, _, _)
\* the pass of LongDiv that brings down limb st.i: r1 is the remainder with
\* the limb, c the quotient limb
LongDivLimb(a, b, st, r1, c) ==
    LongDiv(a, b, [q |-> <<c>> \o st.q, i |-> st.i - 1,
                   r |-> BigSub(r1, BigMulSmall(b, c))])
LongDivDown(a, b, st, r1) ==
    InOrder(<<r1, LongDivLimb(a, b, st, r1, QuotientLimb(r1, b))>>)
\* st: the limbs q found so far, the limb i to bring down next, the remainder r
LongDiv(a, b, st) ==
    IF st.i = 0 THEN st
    ELSE LongDivDown(a, b, st, Norm(<<a[st.i]>> \o st.r))

\* <<a \div b, a % b>> from the long division st of a * f by b * f
LongDivResult(st, f) == <<Norm(st.q), BigDivSmall(st.r, f)[1]>>
LongDivScaled(af, bf, f) ==
    InOrder(<<af, bf,
              LongDivResult(LongDiv(af, bf, [q |-> << >>, i |-> Len(af), r |-> << >>]),
                            f)>>)
SmallDivResult(qr) == <<qr[1], BigOfInt(qr[2])>>

\* <<a \div b, a % b>> for b > 0 without low zero limbs: by the small division
\* if b is small, else by long division, both scaled by f to bring the high limb
\* of b to 5000 or more
DivModOdd(a, b) ==
    IF BigLt(a, b) THEN <<<< >>, a>>
    ELSE IF Len(b) = 1 \/ (Len(b) = 2 /\ b[2] < 20)
    THEN SmallDivResult(BigDivSmall(a, BigToInt(b)))
    ELSE LongDivScaled(BigMulSmall(a, 10000 \div (b[Len(b)] + 1)),
                       BigMulSmall(b, 10000 \div (b[Len(b)] + 1)),
                       10000 \div (b[Len(b)] + 1))

\* <<a \div b, a % b>> from that of a and b without their j low limbs
DivModLow(a, j, qr) ==
    IF j = 0 THEN qr ELSE <<qr[1], Norm(SubSeq(a, 1, j) \o qr[2])>>
DivModFrom(a, b, j) ==
    DivModLow(a, j, DivModOdd(SubSeq(a, j + 1, Len(a)), SubSeq(b, j + 1, Len(b))))

\* <<a \div b, a % b>> for b > 0: the low zero limbs of b set aside
BigDivMod(a, b) ==
    IF BigLt(a, b) THEN <<<< >>, a>>
    ELSE DivModFrom(a, b, (CHOOSE i \in 1..Len(b) :
                               b[i] # 0 /\ \A h \in 1..(i - 1) : b[h] = 0) - 1)

IsOdd(a) == a # << >> /\ a[1] % 2 = 1

(***************************************************************************)
(* Go's uint64 and int64 (time.Duration).  An int64 is a sign and a        *)
(* magnitude; the conversions between the two types are two's complement.  *)
(***************************************************************************)
\* 2^63 = 9223372036854775808, 2^64 = 18446744073709551616
Two63 == <<5808, 5477, 368, 3372, 922>>
Two64 == <<1616, 955, 737, 6744, 1844>>
MaxInt64 == <<5807, 5477, 368, 3372, 922>>

\* x modulo 2^64
Wrap64(x) ==
    IF BigLt(x, Two64) THEN x
    ELSE BigSub(x, BigMul(ShiftRight(x, 64), Two64))

U64Add(a, b) == Wrap64(BigAdd(a, b))
U64Sub(a, b) == IF BigLe(b, a) THEN BigSub(a, b) ELSE BigSub(Two64, BigSub(b, a))
U64Mul(a, b) == Wrap64(BigMul(a, b))
U64Neg(a)    == U64Sub(<< >>, a)
U64Div(a, b) == BigDivMod(a, b)[1]

I64(negative, magnitude) == [neg |-> negative /\ magnitude # << >>, mag |-> magnitude]
I64Zero == I64(FALSE, << >>)

\* int64(u) and uint64(x): the same 64 bits read the other way
I64OfU64(u) == IF BigLt(u, Two63) THEN I64(FALSE, u) ELSE I64(TRUE, BigSub(Two64, u))
U64OfI64(x) == IF x.neg THEN BigSub(Two64, x.mag) ELSE x.mag
\* -x on an int64: the minimum value negates to itself
I64Neg(x) == I64OfU64(U64Neg(U64OfI64(x)))

(***************************************************************************)
(* Go's float64, for the positive finite values the code computes: the     *)
(* value m * 2^e with m <= 2^53, each operation rounded to 53 significant  *)
(* bits, ties to even (IEEE 754).                                          *)
(***************************************************************************)
\* 2^53 = 9007199254740992
Two53 == <<992, 5474, 1992, 9007>>

\* the s low bits of st.n dropped: q the bits kept, low the bits dropped as
\* low / 10^s, a half of the last place as half / 10^s
RoundUp(st, s, q, low, half) ==
    InOrder(<<q, low, half,
              [m |-> IF BigLe(half, low) /\ (st.sticky \/ low # half \/ IsOdd(q))
                     THEN BigAdd(q, <<1>>) ELSE q,
               e |-> st.e + s]>>)
RoundDrop(st, s, p) ==
    InOrder(<<p, RoundUp(st, s, DropDigits(p, s), LowDigits(p, s),
                         BigMulSmall(Pow10(s - 1), 5))>>)
RoundTo(st, s) == InOrder(<<s, RoundDrop(st, s, BigMul(st.n, Pow5(s)))>>)

\* the float64 nearest to (st.n + a little if st.sticky) * 2^st.e, for st.n of 2^53
\* or more when st.sticky
RoundSig(st) ==
    IF BigLt(st.n, Two53) THEN [m |-> st.n, e |-> st.e]
    ELSE RoundTo(st, Bits(st.n) - 53)

\* float64(v) for an integer v
F64OfU64(v) == RoundSig([n |-> v, e |-> 0, sticky |-> FALSE])

F64Mul(a, b) ==
    InOrder(<<a, b, RoundSig([n |-> BigMul(a.m, b.m), e |-> a.e + b.e, sticky |-> FALSE])>>)

\* a / 10^k from n = a.m * 2^x
F64DivBy(a, k, x, n) ==
    InOrder(<<n, RoundSig([n |-> DropDigits(n, k), e |-> a.e - x,
                           sticky |-> LowDigits(n, k) # << >>])>>)
F64DivUp(a, scale, x) == F64DivBy(a, Digits(scale) - 1, x, ShiftLeft(a.m, x))

\* a / scale for a float64 a and a scale 10^k that is itself a float64 (any up to
\* 10^22 is): the integer quotient of a.m * 2^x by the scale, x taken so that
\* the quotient keeps 55 bits or more, and the remainder says whether more follow
F64Div(a, scale) ==
    InOrder(<<a, F64DivUp(a, scale, IF 55 + BitsHigh(scale) > BitsLow(a.m)
                                    THEN 55 + BitsHigh(scale) - BitsLow(a.m) ELSE 0)>>)

\* uint64(x): the fraction is dropped.  The code converts the product of a
\* count below 2^63 and a float64 below one unit, which is below 2^64
U64OfF64(x) ==
    IF x.e >= 0 THEN ShiftLeft(x.m, x.e)
    ELSE ShiftRight(x.m, 0 - x.e)

\* uint64(float64(v) * (float64(unit) / scale))
ScaleByFraction(v, unit, scale) ==
    U64OfF64(F64Mul(F64OfU64(v), F64Div(F64OfU64(unit), scale)))

(***************************************************************************)
(* Go's time.Time and the calendar of package time: an instant is its      *)
(* count of nanoseconds since 0001-01-01T00:00:00Z (the zero Time), on the *)
(* proleptic Gregorian calendar, in UTC.                                   *)
(***************************************************************************)
Second == <<0, 0, 10>>
Minute == <<0, 0, 600>>
Hour   == <<0, 0, 6000, 3>>
Day    == <<0, 0, 4000, 86>>

IsLeap(y) == y % 4 = 0 /\ (y % 100 # 0 \/ y % 400 = 0)

\* days before the first of month m (1..12) in a year that is not leap
DaysBefore(m) == <<0, 31, 59, 90, 120, 151, 181, 212, 243, 273, 304, 334>>[m]

\* days from 0001-01-01 to the first of January of year y (y >= 1)
DaysSinceEpoch(y) ==
    (365 * (y - 1)) + ((y - 1) \div 4) - ((y - 1) \div 100) + ((y - 1) \div 400)

\* the day number of a year, a month of 1..12 and a day
DayOfMonth(y, m, day) ==
    DaysSinceEpoch(y) + DaysBefore(m) + (IF IsLeap(y) /\ m >= 3 THEN 1 ELSE 0) + day - 1

\* time.Date: the day number of year-month-day, months and days past their range
\* carried over (month 13 is January of the next year, 31 April is 1 May)
DayOfCivil(year, month, day) ==
    DayOfMonth(year + ((month - 1) \div 12), ((month - 1) % 12) + 1, day)

\* Time.Date: the year, month and day of day number n
CivilOfMonth(n, y, m) == [year |-> y, month |-> m, day |-> n - DayOfMonth(y, m, 1) + 1]
CivilOfYear(n, y) ==
    CivilOfMonth(n, y, Max({m \in 1..12 : DayOfMonth(y, m, 1) <= n}))
CivilOfDay(n) ==
    CivilOfYear(n, Max({y \in ((n \div 366) + 1)..((n \div 365) + 1) :
                            DaysSinceEpoch(y) <= n}))

\* time.Date(year, month, day, hour, min, sec, nsec, time.UTC)
GoDate(year, month, day, hour, min, sec, nsec) ==
    BigAdd(BigAdd(BigMul(BigOfInt(DayOfCivil(year, month, day)), Day),
                  BigMul(BigOfInt((hour * 3600) + (min * 60) + sec), Second)),
           BigOfInt(nsec))

\* t.AddDate(years, months, days): the civil date c of t moved, the clock dn[2] kept
AddDateTo(dn, c, years, months, days) ==
    BigAdd(BigMul(BigOfInt(DayOfCivil(c.year + years, c.month + months, c.day + days)),
                  Day),
           dn[2])
AddDateOf(dn, years, months, days) ==
    AddDateTo(dn, CivilOfDay(BigToInt(dn[1])), years, months, days)
AddDate(t, years, months, days) == AddDateOf(BigDivMod(t, Day), years, months, days)

\* a time.Duration of the given sign, the magnitude held at most
Saturate(negative, diff, most) ==
    IF BigLe(diff, most) THEN I64(negative, diff) ELSE I64(negative, most)

\* t.Sub(u), a time.Duration: the difference, held at the int64 bounds
TimeSub(t, u) ==
    IF BigLe(u, t) THEN Saturate(FALSE, BigSub(t, u), MaxInt64)
    ELSE Saturate(TRUE, BigSub(u, t), Two63)

\* t.Add(d); no instant before the zero Time arises from the inputs modelled
TimeAdd(t, d) == IF d.neg THEN BigSub(t, d.mag) ELSE BigAdd(t, d.mag)

(***************************************************************************)
(* Strings as Go slices them.                                              *)
(***************************************************************************)
At(s, i)      == SubSeq(s, i + 1, i + 1)          \* s[i]
From_(s, i)   == SubSeq(s, i + 1, Len(s))         \* s[i:]
Upto(s, i)    == SubSeq(s, 1, i)                  \* s[:i]

(***************************************************************************)
(* duration.go: the package variables.                                     *)
(***************************************************************************)
\* a provider of the reference instant (a func() time.Time): time.Now, or a
\* closure that returns one fixed instant
TimeNow == [kind |-> "Now", t |-> << >>]
Const(t) == [kind |-> "Const", t |-> t]
\* calling a provider; now is what time.Now returns at that moment
CallProvider(p, now) == IF p.kind = "Now" THEN now ELSE p.t

units     == {"M", "Y"}
dateUnit  == [D |-> Day]
timeUnits == [S |-> Second, M |-> Minute, H |-> Hour]

\* the constant expressions 1<<63/10 and (1<<63-1)/10, both 922337203685477580
Two63Div10    == <<7580, 8547, 2036, 2337, 92>>
MaxInt64Div10 == <<7580, 8547, 2036, 2337, 92>>

(***************************************************************************)
(* leadingInt and leadingFraction.                                         *)
(***************************************************************************)
\* x*10 + uint64(c) - '0'
PushDigit(x, c) == U64Add(U64Mul(x, <<10>>), BigOfInt(DigitVal(c)))

\* one pass of leadingInt's loop, over the digit at st.i; y is x after the digit
leadingIntDigit(st, y) ==
    IF BigGt(y, Two63) THEN [st EXCEPT !.err = "ErrLeadingInt"]
    ELSE [st EXCEPT !.i = st.i + 1, !.x = y]
leadingIntStep(st) ==
    IF BigGt(st.x, Two63Div10) THEN [st EXCEPT !.err = "ErrLeadingInt"]
    ELSE leadingIntDigit(st, PushDigit(st.x, At(st.s, st.i)))

RECURSIVE leadingIntLoop(_)
leadingIntLoop(st) ==
    IF st.err # "nil" \/ st.i >= Len(st.s) \/ ~IsDigit(At(st.s, st.i))
    THEN IF st.err # "nil" THEN [x |-> << >>, rem |-> "", err |-> st.err]
         ELSE [x |-> st.x, rem |-> From_(st.s, st.i), err |-> "nil"]
    ELSE leadingIntLoop(leadingIntStep(st))

leadingInt(s) == leadingIntLoop([s |-> s, i |-> 0, x |-> << >>, err |-> "nil"])

\* one pass of leadingFraction's loop, over the digit at st.i; st.scale is a
\* float64 that holds a power of ten exactly
leadingFractionDigit(st, y) ==
    IF BigGt(y, Two63) THEN [st EXCEPT !.i = st.i + 1, !.overflow = TRUE]
    ELSE [st EXCEPT !.i = st.i + 1, !.x = y, !.scale = BigMulSmall(st.scale, 10)]
leadingFractionStep(st) ==
    IF st.overflow THEN [st EXCEPT !.i = st.i + 1]
    ELSE IF BigGt(st.x, MaxInt64Div10) THEN [st EXCEPT !.i = st.i + 1, !.overflow = TRUE]
    ELSE leadingFractionDigit(st, PushDigit(st.x, At(st.s, st.i)))

RECURSIVE leadingFractionLoop(_)
leadingFractionLoop(st) ==
    IF st.i >= Len(st.s) \/ ~IsDigit(At(st.s, st.i))
    THEN [x |-> st.x, scale |-> st.scale, rem |-> From_(st.s, st.i)]
    ELSE leadingFractionLoop(leadingFractionStep(st))

leadingFraction(s) ==
    leadingFractionLoop([s |-> s, i |-> 0, x |-> << >>, scale |-> <<1>>,
                         overflow |-> FALSE])

(***************************************************************************)
(* The unit resolvers.  A scale of 0 (<< >>) asks for v whole units.       *)
(***************************************************************************)
\* int(v), for the counts of months and years modelled (below 2^31)
GoInt(v) == BigToInt(v)

\* uint64(float64(v) * (float64(to.Sub(from)) / scale))
ScaleSpan(from, to, v, scale) ==
    InOrder(<<to, ScaleByFraction(v, TimeSub(to, from).mag, scale)>>)

\* uint64(to.Sub(from))
SpanTo(from, to) == InOrder(<<to, U64OfI64(TimeSub(to, from))>>)

month(from, v, scale) ==
    IF scale = << >> THEN SpanTo(from, AddDate(from, 0, GoInt(v), 0))
    ELSE ScaleSpan(from, AddDate(from, 0, 1, 0), v, scale)

year(from, v, scale) ==
    IF scale = << >> THEN SpanTo(from, AddDate(from, GoInt(v), 0, 0))
    ELSE ScaleSpan(from, AddDate(from, 1, 0, 0), v, scale)

\* if v > 1<<63 { return 0, ErrOverflow }; return v, nil
Below63(v) ==
    IF BigGt(v, Two63) THEN [v |-> << >>, err |-> "ErrOverflow"]
    ELSE [v |-> v, err |-> "nil"]

\* (s sampleUnits) unit(name, v, scale)
sampleUnitsUnit(s, name, v, scale) ==
    IF name \in DOMAIN s
    THEN IF scale # << >>
         THEN Below63(ScaleByFraction(v, s[name], scale))
         ELSE IF BigGt(v, U64Div(Two63, s[name]))
              THEN [v |-> << >>, err |-> "ErrOverflow"]
              ELSE [v |-> U64Mul(v, s[name]), err |-> "nil"]
    ELSE [v |-> << >>, err |-> "ErrMissingUnit"]

\* a variant of durationUnitOut that leaves d.from as it was
durationUnitKept(d, from, out) ==
    IF BigGt(out, Two63) THEN [v |-> << >>, err |-> "ErrOverflow", d |-> d]
    ELSE [v |-> out, err |-> "nil", d |-> d]

\* the end of (d *duration) unit for a calendar unit: out is what the unit
\* function returned for the instant from
durationUnitOut(d, from, out) ==
    IF InOrder(<<from, out, BigGt(out, Two63)>>)
    THEN [v |-> << >>, err |-> "ErrOverflow", d |-> d]
    ELSE [v |-> out, err |-> "nil",
          d |-> [from |-> Const(TimeAdd(from, I64OfU64(out)))]]
durationUnitFrom(d, from, name, v, scale) ==
    durationUnitOut(d, from,
                    IF name = "M" THEN month(from, v, scale) ELSE year(from, v, scale))
\* what (d *duration) unit returns of a sampleUnits result r
durationUnitDate(d, r) == [v |-> r.v, err |-> r.err, d |-> d]

\* (d *duration) unit(name, v, scale): the result, and d after the call
durationUnit(d, now, name, v, scale) ==
    IF name \in DOMAIN dateUnit
    THEN durationUnitDate(d, sampleUnitsUnit(dateUnit, name, v, scale))
    ELSE IF name \in units
    THEN durationUnitFrom(d, CallProvider(d.from, now), name, v, scale)
    ELSE [v |-> << >>, err |-> "ErrMissingUnit", d |-> d]

(***************************************************************************)
(* ParseDuration: one pass of its loop.  st holds the locals s, d, inTime  *)
(* (whether unit is timeUnits.unit) and option; now is what time.Now       *)
(* returns if the pass calls it.                                           *)
(***************************************************************************)
RECURSIVE unitEnd(_, _)
\* the index of the first '.', digit or 'T' of s from i on, or len(s)
unitEnd(s, i) ==
    IF i >= Len(s) \/ At(s, i) = "." \/ IsDigit(At(s, i)) \/ At(s, i) = "T"
    THEN i
    ELSE unitEnd(s, i + 1)

\* a unit result r beside the option d that the call leaves
WithOption(d, r) == [v |-> r.v, err |-> r.err, d |-> d]

\* the unit method in force: timeUnits.unit after a 'T', option.unit before
unit(inTime, option, now, name, v, scale) ==
    IF inTime THEN WithOption(option, sampleUnitsUnit(timeUnits, name, v, scale))
    ELSE durationUnit(option, now, name, v, scale)

NoToken == [u |-> "", inTime |-> FALSE, whole |-> << >>, frac |-> << >>,
            before |-> TimeNow, after |-> TimeNow, from |-> << >>]

\* what a pass resolved: the unit text, the nanoseconds of the whole part and
\* of the fraction, the provider before and after, and for a calendar unit the
\* instant the provider returned
Token(u, st, now, r1, r2) ==
    [u |-> u, inTime |-> st.inTime, whole |-> r1.v, frac |-> r2.v,
     before |-> st.option.from, after |-> r2.d.from,
     from |-> IF ~st.inTime /\ u \in units THEN CallProvider(st.option.from, now)
              ELSE << >>]

\* the outcomes of a pass: a return with an error, a run-time panic, or the next pass
Outcome(pc, err, st, token) ==
    [pc |-> pc, err |-> err, s |-> st.s, d |-> st.d, inTime |-> st.inTime,
     option |-> st.option, token |-> token]
Fail(e, st) == Outcome("done", e, st, NoToken)
Panic(st)   == Outcome("panic", "nil", st, NoToken)

\* lines 146-149: the overflow check and d += v
Accumulate(st, v, token) ==
    IF InOrder(<<v, BigGt(st.d, U64Sub(Two63, v))>>)
    THEN Outcome("done", "ErrOverflow", st, token)
    ELSE Outcome("loop", "nil", [st EXCEPT !.d = U64Add(@, v)], token)

\* lines 136-144: r2 is the fraction through unit, or nothing if f is 0
ResolveFraction(st, now, u, r1, r2) ==
    IF r2.err # "nil" THEN Fail(r2.err, [st EXCEPT !.option = r2.d])
    ELSE Accumulate([st EXCEPT !.option = r2.d], U64Add(r1.v, r2.v),
                    Token(u, st, now, r1, r2))

\* lines 131-134: r1 is the whole part through unit
ResolveWhole(st, now, u, f, scale, r1) ==
    IF r1.err # "nil" THEN Fail(r1.err, [st EXCEPT !.option = r1.d])
    ELSE ResolveFraction(st, now, u, r1,
                         IF f = << >> THEN [v |-> << >>, err |-> "nil", d |-> r1.d]
                         ELSE unit(st.inTime, r1.d, now, u, f, scale))

\* lines 118-134: the unit text ends at index i of s
ScanUnit(st, now, v, lf, i) ==
    IF i = 0 THEN Fail("ErrMissingUnit", st)
    ELSE ResolveWhole([st EXCEPT !.s = From_(@, i)], now, Upto(st.s, i), lf.x, lf.scale,
                      unit(st.inTime, st.option, now, Upto(st.s, i), v, << >>))

\* lines 101-115: li is what leadingInt returned and lf what leadingFraction
\* did, if a '.' followed
ScanFraction(st, now, li, lf) ==
    IF /\ Len(st.s) = Len(li.rem)
       /\ ~(li.rem # "" /\ At(li.rem, 0) = "." /\ Len(li.rem) - 1 # Len(lf.rem))
    THEN Fail("ErrInvalidDuration", [st EXCEPT !.s = lf.rem])
    ELSE ScanUnit([st EXCEPT !.s = lf.rem], now, li.x, lf, unitEnd(lf.rem, 0))

\* lines 96-110
ScanInt(st, now, li) ==
    IF li.err # "nil" THEN Fail("ErrInvalidDuration", st)
    ELSE ScanFraction(st, now, li,
                      IF li.rem # "" /\ At(li.rem, 0) = "."
                      THEN leadingFraction(From_(li.rem, 1))
                      ELSE [x |-> << >>, scale |-> <<1>>, rem |-> li.rem])

\* lines 90-101: s[0] of an empty string is a run-time panic
NextCharacter(st, now) ==
    IF st.s = "" THEN Panic(st)
    ELSE IF ~(At(st.s, 0) = "." \/ IsDigit(At(st.s, 0)))
    THEN Fail("ErrInvalidDuration", st)
    ELSE ScanInt(st, now, leadingInt(st.s))

\* lines 77-150: one pass, entered with s # ""
LoopBody(st, now) ==
    NextCharacter(IF At(st.s, 0) = "T"
                  THEN [st EXCEPT !.s = From_(@, 1), !.inTime = TRUE]
                  ELSE st,
                  now)

\* a variant of Result that checks the range before it looks at the sign
ResultChecked(d, neg) ==
    IF BigGt(d, MaxInt64) THEN [value |-> I64Zero, err |-> "ErrOverflow"]
    ELSE IF neg THEN [value |-> I64Neg(I64OfU64(d)), err |-> "nil"]
    ELSE [value |-> I64OfU64(d), err |-> "nil"]

\* lines 152-160: the value returned once the input is used up
Result(d, neg) ==
    IF neg THEN [value |-> I64Neg(I64OfU64(d)), err |-> "nil"]
    ELSE IF BigGt(d, MaxInt64) THEN [value |-> I64Zero, err |-> "ErrOverflow"]
    ELSE [value |-> I64OfU64(d), err |-> "nil"]

(***************************************************************************)
(* FormatDuration, writing a 32-byte buffer from its end.  b holds buf, w  *)
(* and u.                                                                  *)
(***************************************************************************)
BufLen == 32

\* var buf [32]byte; a blank stands for the zero byte, which no result shows
ZeroBuf == "                                "

\* w--; buf[w] = c
Push(b, c) ==
    [b EXCEPT !.buf = SubSeq(@, 1, b.w - 1) \o c \o SubSeq(@, b.w + 1, Len(@)),
              !.w = @ - 1]

RECURSIVE fmtIntLoop(_, _)
\* w--; buf[w] = byte(v%10) + '0'; v /= 10, for qr = <<v / 10, v % 10>>
fmtIntDigit(b, qr) == fmtIntLoop(Push(b, DigitChar(qr[2])), qr[1])
\* for v > 0 { ... }
fmtIntLoop(b, v) == IF v = << >> THEN b ELSE fmtIntDigit(b, BigDivSmall(v, 10))

\* w = fmtInt(buf[:w], v)
fmtInt(b, v) == IF v = << >> THEN Push(b, "0") ELSE fmtIntLoop(b, v)

RECURSIVE fmtFracLoop(_, _, _, _)
\* one pass of fmtFrac's loop, for qr = <<v / 10, v % 10>>
fmtFracDigit(b, isPrint, i, prec, qr) ==
    fmtFracLoop([(IF isPrint \/ qr[2] # 0 THEN Push(b, DigitChar(qr[2])) ELSE b)
                   EXCEPT !.u = qr[1]],
                isPrint \/ qr[2] # 0, i + 1, prec)
fmtFracLoop(b, isPrint, i, prec) ==
    IF i >= prec THEN IF isPrint THEN Push(b, ".") ELSE b
    ELSE fmtFracDigit(b, isPrint, i, prec, BigDivSmall(b.u, 10))

\* w, u = fmtFrac(buf[:w], u, prec): the low prec digits of u as a fraction
\* without its trailing zeros
fmtFrac(b, prec) == fmtFracLoop(b, FALSE, 0, prec)

\* a variant of FormatSecondsOf that never takes "0S" back
FormatSecondsKept(b, qr) == [fmtInt(b, BigOfInt(qr[2])) EXCEPT !.u = qr[1]]

\* lines 300-308: the seconds, dropped again if nothing but "0S" is written;
\* qr = <<u / 60, u % 60>>
FormatSecondsOf(b, qr) ==
    [fmtInt(b, BigOfInt(qr[2]))
       EXCEPT !.w = IF qr[2] = 0 /\ @ + 2 = BufLen THEN @ + 2 ELSE @,
              !.u = qr[1]]
FormatSeconds(b) == FormatSecondsOf(b, BigDivSmall(b.u, 60))

\* lines 319-324: the hours; qr = <<u / 24, u % 24>>
FormatHoursOf(b, qr) ==
    [(IF b.u # << >> /\ qr[2] > 0 THEN fmtInt(Push(b, "H"), BigOfInt(qr[2])) ELSE b)
       EXCEPT !.u = qr[1]]
FormatHours(b) == FormatHoursOf(b, BigDivSmall(b.u, 24))

\* lines 311-325: the minutes and the hours, if u > 0; qr = <<u / 60, u % 60>>
FormatMinutesOf(b, qr) ==
    FormatHours([(IF qr[2] > 0 THEN fmtInt(Push(b, "M"), BigOfInt(qr[2])) ELSE b)
                   EXCEPT !.u = qr[1]])
FormatMinutes(b) ==
    IF b.u = << >> THEN b ELSE FormatMinutesOf(b, BigDivSmall(b.u, 60))

\* a variant of FormatT that writes the 'T' whatever was written before it
FormatTAlways(b) == Push(b, "T")

\* lines 327-330
FormatT(b) == IF b.w # BufLen THEN Push(b, "T") ELSE b

\* lines 332-336
FormatDays(b) == IF b.u # << >> THEN fmtInt(Push(b, "D"), b.u) ELSE b

\* lines 338-346
FormatSign(b, neg) ==
    IF neg THEN SubSeq(Push(Push(b, "P"), "-").buf, b.w - 1, BufLen)
    ELSE SubSeq(Push(b, "P").buf, b.w, BufLen)

FormatDuration(duration) ==
    IF duration = I64Zero THEN "PT0S"
    ELSE FormatSign(
             FormatDays(FormatT(FormatMinutes(FormatSeconds(
                 fmtFrac(Push([buf |-> ZeroBuf, w |-> BufLen,
                               u |-> IF duration.neg THEN U64Neg(U64OfI64(duration))
                                     ELSE U64OfI64(duration)],
                              "S"),
                         9))))),
             duration.neg)

(***************************************************************************)
(* The callers' inputs.  A parse input is text; the shape it was built     *)
(* from (its sign, its tokens before and after 'T') stays beside it for    *)
(* the properties, and the code sees the text alone.                       *)
(***************************************************************************)
MaxYears  == 3
MaxMonths == 6

Tok(i, f, u) == [i |-> i, f |-> f, u |-> u]
TokText(k)   == k.i \o (IF k.f = "" THEN "" ELSE "." \o k.f) \o k.u

RECURSIVE TokensText(_)
TokensText(ks) == IF ks = << >> THEN "" ELSE TokText(Head(ks)) \o TokensText(Tail(ks))

Shape(sign, date, hasT, time) ==
    [kind |-> "tokens", sign |-> sign, date |-> date, hasT |-> hasT, time |-> time,
     text |-> sign \o "P" \o TokensText(date) \o (IF hasT THEN "T" ELSE "")
              \o TokensText(time),
     t |-> I64Zero]
Raw(text) ==
    [kind |-> "raw", sign |-> "", date |-> << >>, hasT |-> FALSE, time |-> << >>,
     text |-> text, t |-> I64Zero]
Formatted(t, text) ==
    [kind |-> "formatted", sign |-> "", date |-> << >>, hasT |-> FALSE, time |-> << >>,
     text |-> text, t |-> t]
NoShape == Raw("")

Numeral(n) == IF n < 10 THEN DigitChar(n) ELSE DigitChar(n \div 10) \o DigitChar(n % 10)

\* the date sections without calendar units, the malformed ones among them
FixedDates ==
    { << >>,
      <<Tok("1", "", "D")>>, <<Tok("10", "", "D")>>, <<Tok("0", "5", "D")>>,
      <<Tok("106751", "", "D")>>, <<Tok("106752", "", "D")>>,
      <<Tok("1", "", "H")>>, <<Tok("1", "", "X")>>, <<Tok("1", "", "")>> }

\* the time sections; the empty one is a 'T' with nothing after it
TimeSections ==
    { << >>,
      <<Tok("0", "", "S")>>, <<Tok("1", "", "S")>>, <<Tok("1", "", "H")>>,
      <<Tok("0", "2", "S")>>, <<Tok("0", "000000001", "S")>>,
      <<Tok("12", "", "H"), Tok("30", "", "M"), Tok("17", "", "S")>>,
      <<Tok("17", "", "S"), Tok("12", "", "H")>>,
      <<Tok("12", "", "H"), Tok("30", "5", "M")>>,
      <<Tok("9223372036", "854775807", "S")>>, <<Tok("9223372036", "854775808", "S")>>,
      <<Tok("9223372036", "9", "S")>>, <<Tok("9223372037", "", "S")>>,
      <<Tok("2562047", "", "H"), Tok("2562047", "", "H")>>,
      <<Tok("9223372036854775808", "", "S")>>, <<Tok("9223372036854775809", "", "S")>>,
      <<Tok("0", "0000000001", "S")>>, <<Tok("0", "00000000005000", "M")>>,
      <<Tok("0", "12345678901234567890123", "H")>>,
      <<Tok("1", "", "D")>>, <<Tok("1", "", "")>>, <<Tok("1", "", "S"), Tok("", "", "x")>> }

\* the time sections at the int64 bounds, after 106751 days
BoundSections ==
    { <<Tok("23", "", "H"), Tok("47", "", "M"), Tok("16", "854775807", "S")>>,
      <<Tok("23", "", "H"), Tok("47", "", "M"), Tok("16", "854775808", "S")>>,
      <<Tok("23", "", "H"), Tok("47", "", "M"), Tok("17", "", "S")>> }

FixedShapes ==
    { Shape(sg, dt, TRUE, tm) : sg \in {"", "-"},
                                dt \in {<< >>, <<Tok("10", "", "D")>>}, tm \in TimeSections }
    \cup { Shape(sg, <<Tok("106751", "", "D")>>, TRUE, tm) :
               sg \in {"", "-"}, tm \in BoundSections }
    \cup { Shape(sg, dt, FALSE, << >>) : sg \in {"", "-", "+"}, dt \in FixedDates }
    \cup { Shape("", dt, TRUE, << >>) : dt \in FixedDates }
    \cup { Raw(""), Raw("1D"), Raw("P.D"), Raw("-"), Raw("PT.S"), Raw("+1D") }

\* the time section of the package's tests
TestTime == <<Tok("12", "", "H"), Tok("30", "", "M"), Tok("17", "", "S")>>

\* the date sections with whole years and months, in both orders, and the one
\* of the package's tests
CalendarDates ==
    { <<Tok(Numeral(y), "", "Y"), Tok(Numeral(m), "", "M"), Tok("4", "", "D")>> :
          y \in 1..MaxYears, m \in {1, MaxMonths} }
    \cup { <<Tok(Numeral(m), "", "M"), Tok(Numeral(y), "", "Y")>> :
          y \in 1..MaxYears, m \in {1, MaxMonths} }
    \cup { <<Tok("3", "", "Y"), Tok("6", "", "M"), Tok("4", "", "D")>> }

\* date sections with a fraction of a year or of a month
FractionDates ==
    { <<Tok("1", "5", "Y"), Tok("1", "", "M")>>, <<Tok("0", "5", "M"), Tok("1", "", "Y")>> }

CalendarShapes ==
    { Shape("", dt, Len(dt) = 3, IF Len(dt) = 3 THEN TestTime ELSE << >>) :
          dt \in CalendarDates }
    \cup { Shape("-", dt, FALSE, << >>) : dt \in FractionDates \cup
               {<<Tok("1", "", "Y"), Tok("1", "", "M"), Tok("4", "", "D")>>} }
    \cup { Shape("", dt, FALSE, << >>) : dt \in FractionDates }

ParseShapes == FixedShapes \cup CalendarShapes

\* the inputs a caller parses a second time
RepeatShapes ==
    CalendarShapes \cup {Shape("", <<Tok("10", "", "D")>>, TRUE, TestTime)}

\* the reference instants: the zero Time, and those of the package's tests and examples
ZeroTime == << >>
T2006    == GoDate(2006, 1, 2, 15, 4, 5, 0)
T2020    == GoDate(2020, 1, 1, 1, 1, 1, 1)
\* the options of a call: none (the default provider) or From(a closure)
Options     == {TimeNow, Const(ZeroTime), Const(T2006)}
\* what time.Now may return
NowInstants == {T2020, T2006}

\* the durations formatted: every mix of the parts below, and the int64 bounds
Nanos(days, hours, mins, secs, ns) ==
    BigAdd(BigMul(BigOfInt(((days * 24 + hours) * 60 + mins)), Minute),
           BigAdd(BigMulSmall(Second, secs), BigOfInt(ns)))
Durations ==
    { I64(sg, Nanos(dd, hh, mm, ss, ns)) :
          sg \in BOOLEAN, dd \in {0, 1}, hh \in {0, 1, 23}, mm \in {0, 47},
          ss \in {0, 16}, ns \in {0, 200000000} }
    \cup { I64(sg, ns) : sg \in BOOLEAN, ns \in {<<1>>, <<9999, 9999, 9>>, MaxInt64} }
    \cup { I64(TRUE, Two63), I64(FALSE, Nanos(106751, 0, 0, 0, 0)) }

(***************************************************************************)
(* The state: the package variable, the locals of the ParseDuration call   *)
(* in progress, and what the last calls were given and returned.           *)
(***************************************************************************)
VARIABLES
    pc,             \* "idle", "loop" (inside ParseDuration's loop), "done", "panic"
    defaultOption,  \* the package variable
    option,         \* ParseDuration's local copy, as its unit method leaves it
    s, d, neg,      \* ParseDuration's locals
    inTime,         \* whether unit is timeUnits.unit
    ret,            \* what ParseDuration returned
    fmtIn, fmtOut,  \* the last FormatDuration call: argument and result
    shape, opt,     \* the input and option of the ParseDuration call
    log,            \* the tokens resolved by the call so far
    prev            \* the call before this one, if this one parses its input again

vars == <<pc, defaultOption, option, s, d, neg, inTime, ret, fmtIn, fmtOut, shape, opt,
          log, prev>>

NoRet  == [value |-> I64Zero, err |-> "none"]
NoPrev == [opt |-> TimeNow, ret |-> NoRet, log |-> << >>]

Init ==
    /\ pc = "idle"
    /\ defaultOption = [from |-> TimeNow]
    /\ option = [from |-> TimeNow]
    /\ s = "" /\ d = << >> /\ neg = FALSE /\ inTime = FALSE
    /\ ret = NoRet
    /\ fmtIn = I64Zero /\ fmtOut = ""
    /\ shape = NoShape /\ opt = TimeNow
    /\ log = << >>
    /\ prev = NoPrev

\* FormatDuration(t), a call that runs to its end
Format(t) ==
    /\ pc = "idle"
    /\ pc' = "done"
    /\ fmtIn' = t
    /\ fmtOut' = FormatDuration(t)
    /\ UNCHANGED <<defaultOption, option, s, d, neg, inTime, ret, shape, opt, log, prev>>

\* lines 48-75: the options applied to a copy of defaultOption, the sign and the 'P'
Begin(sh, o) ==
    LET sign == sh.text # "" /\ At(sh.text, 0) \in {"-", "+"}
        s1   == IF sign THEN From_(sh.text, 1) ELSE sh.text
    IN  /\ shape' = sh
        /\ opt' = o
        /\ option' = IF o = TimeNow THEN defaultOption ELSE [from |-> o]
        /\ neg' = (sign /\ At(sh.text, 0) = "-")
        /\ d' = << >>
        /\ inTime' = FALSE
        /\ log' = << >>
        /\ IF s1 = "" \/ At(s1, 0) # "P"
           THEN /\ pc' = "done"
                /\ ret' = [value |-> I64Zero, err |-> "ErrInvalidDuration"]
                /\ s' = s1
           ELSE /\ pc' = "loop"
                /\ ret' = NoRet
                /\ s' = From_(s1, 1)
        /\ UNCHANGED defaultOption

\* ParseDuration(text, opts...) called on an input of its own
Parse(sh, o) ==
    /\ pc = "idle"
    /\ Begin(sh, o)
    /\ UNCHANGED <<fmtIn, fmtOut, prev>>

\* ParseDuration called on what FormatDuration has just returned
ParseFormatted(o) ==
    /\ pc = "done" /\ fmtOut # "" /\ shape = NoShape
    /\ Begin(Formatted(fmtIn, fmtOut), o)
    /\ UNCHANGED <<fmtIn, fmtOut, prev>>

\* ParseDuration called once more on the input of the call that has returned
ParseAgain(o) ==
    /\ pc = "done" /\ shape \in RepeatShapes /\ prev = NoPrev
    /\ prev' = [opt |-> opt, ret |-> ret, log |-> log]
    /\ Begin(shape, o)
    /\ UNCHANGED <<fmtIn, fmtOut>>

\* what time.Now may return to a call that reads the clock; a closure given
\* with From reads none
Clock(o) == IF o.from = TimeNow THEN NowInstants ELSE {ZeroTime}

\* lines 77-150: one pass of the loop
Iterate(now) ==
    /\ pc = "loop" /\ s # ""
    /\ \E r \in {LoopBody([s |-> s, d |-> d, inTime |-> inTime, option |-> option], now)} :
           /\ pc' = r.pc
           /\ s' = r.s /\ d' = r.d /\ inTime' = r.inTime /\ option' = r.option
           /\ ret' = IF r.pc = "done" THEN [value |-> I64Zero, err |-> r.err] ELSE NoRet
           /\ log' = IF r.token = NoToken THEN log ELSE Append(log, r.token)
    /\ UNCHANGED <<defaultOption, neg, fmtIn, fmtOut, shape, opt, prev>>

\* lines 152-160: the loop is left and the value returned
Return ==
    /\ pc = "loop" /\ s = ""
    /\ pc' = "done"
    /\ ret' = Result(d, neg)
    /\ UNCHANGED <<defaultOption, option, s, d, neg, inTime, fmtIn, fmtOut, shape, opt,
                   log, prev>>

Next ==
    \/ \E t \in Durations : Format(t)
    \/ \E sh \in ParseShapes, o \in Options : Parse(sh, o)
    \/ \E o \in Options : ParseFormatted(o)
    \/ \E o \in Options : ParseAgain(o)
    \/ \E now \in Clock(option) : Iterate(now)
    \/ Return

Spec == Init /\ [][Next]_vars

(***************************************************************************)
(* What the properties speak of: the calls that have returned, the exact   *)
(* value of an input's tokens, and the text a duration is to format as.    *)
(***************************************************************************)
\* a ParseDuration call has returned
Returned == pc = "done" /\ ret.err # "none"

\* the largest magnitude of an int64 of the given sign
Bound(negative) == IF negative THEN Two63 ELSE MaxInt64

\* the tokens of a shape in the order of its text
Tokens(sh) == sh.date \o sh.time

\* every unit of the shape is one of fixed length: D before the 'T', H, M, S after it
FixedUnitShape(sh) ==
    /\ sh.kind = "tokens"
    /\ \A j \in 1..Len(sh.date) : sh.date[j].u \in DOMAIN dateUnit
    /\ \A j \in 1..Len(sh.time) : sh.time[j].u \in DOMAIN timeUnits

\* a fixed-unit shape that is well formed: every token has digits, there is a
\* token, and a 'T' is there exactly when tokens follow it
WellFormedFixed(sh) ==
    /\ FixedUnitShape(sh)
    /\ Tokens(sh) # << >>
    /\ sh.hasT <=> sh.time # << >>
    /\ \A j \in 1..Len(Tokens(sh)) : Tokens(sh)[j].i # "" \/ Tokens(sh)[j].f # ""

\* the number a decimal numeral denotes: four digits to a limb
Big(str) ==
    LET D(k) == DigitVal(SubSeq("000" \o str, k, k))
        P(i) == Len(str) + 3 - 4 * i
    IN  Norm(Tuple([i \in 1..((Len(str) + 3) \div 4) |->
                       D(P(i) + 1) * 1000 + D(P(i) + 2) * 100
                         + D(P(i) + 3) * 10 + D(P(i) + 4)],
                   (Len(str) + 3) \div 4))

\* the nanoseconds of a fixed unit
UnitNanos(u) == IF u = "D" THEN Day ELSE timeUnits[u]

\* the most digits after a '.' in the tokens ks
RECURSIVE Places(_)
Places(ks) ==
    IF ks = << >> THEN 0
    ELSE IF Len(Head(ks).f) >= Places(Tail(ks)) THEN Len(Head(ks).f)
    ELSE Places(Tail(ks))

\* 10^p times the exact nanoseconds of the tokens ks, for p >= Places(ks)
RECURSIVE ExactScaled(_, _)
ExactScaled(ks, p) ==
    IF ks = << >> THEN << >>
    ELSE BigAdd(BigMul(BigAdd(BigMul(Big(Head(ks).i), Pow10(p)),
                              BigMul(Big(Head(ks).f), Pow10(p - Len(Head(ks).f)))),
                       UnitNanos(Head(ks).u)),
                ExactScaled(Tail(ks), p))

\* the exact sum of a fixed-unit shape fits an int64 of the shape's sign
Fits(sh) ==
    BigLe(ExactScaled(Tokens(sh), Places(Tokens(sh))),
          BigMul(Bound(sh.sign = "-"), Pow10(Places(Tokens(sh)))))

\* the whole nanoseconds of the exact sum, with the shape's sign
ExactValue(sh) ==
    I64(sh.sign = "-",
        BigDivMod(ExactScaled(Tokens(sh), Places(Tokens(sh))),
                  Pow10(Places(Tokens(sh))))[1])

\* the nanoseconds the call resolved token j to, and the sum of tokens 1..j,
\* neither of them wrapped
Resolved(lg, j) == BigAdd(lg[j].whole, lg[j].frac)
RECURSIVE ResolvedSum(_, _)
ResolvedSum(lg, j) ==
    IF j = 0 THEN << >> ELSE BigAdd(ResolvedSum(lg, j - 1), Resolved(lg, j))

\* the decimal numeral of n
RECURSIVE Decimal(_)
Decimal(n) == IF n < 10 THEN DigitChar(n) ELSE Decimal(n \div 10) \o DigitChar(n % 10)

\* a numeral without its trailing zeros
RECURSIVE Trimmed(_)
Trimmed(str) ==
    IF str # "" /\ SubSeq(str, Len(str), Len(str)) = "0"
    THEN Trimmed(SubSeq(str, 1, Len(str) - 1))
    ELSE str

\* the parts of a magnitude: days, hours, minutes, seconds, nanoseconds
Parts(mag) ==
    LET dq == BigDivMod(mag, Day)
        hq == BigDivMod(dq[2], Hour)
        mq == BigDivMod(hq[2], Minute)
        sq == BigDivMod(mq[2], Second)
    IN  [days |-> BigToInt(dq[1]), hours |-> BigToInt(hq[1]), minutes |-> BigToInt(mq[1]),
         seconds |-> BigToInt(sq[1]), nanos |-> BigToInt(sq[2])]

\* the seconds token of parts p: the seconds, then the nanoseconds as nine
\* digits after a '.', trailing zeros cut
SecondsToken(p) ==
    Decimal(p.seconds)
      \o (IF p.nanos = 0 THEN ""
          ELSE "." \o Trimmed(SubSeq(Decimal(1000000000 + p.nanos), 2, 10)))
      \o "S"

\* the text of parts p after the sign
CanonicalOf(p) ==
    "P" \o (IF p.days > 0 THEN Decimal(p.days) \o "D" ELSE "")
        \o (IF p.hours + p.minutes + p.seconds + p.nanos > 0 THEN "T" ELSE "")
        \o (IF p.hours > 0 THEN Decimal(p.hours) \o "H" ELSE "")
        \o (IF p.minutes > 0 THEN Decimal(p.minutes) \o "M" ELSE "")
        \o (IF p.seconds + p.nanos > 0 THEN SecondsToken(p) ELSE "")

\* the canonical text of the duration t
Canonical(t) ==
    IF t = I64Zero THEN "PT0S"
    ELSE (IF t.neg THEN "-" ELSE "") \o CanonicalOf(Parts(t.mag))

\* str contains the character c; str ends with the text e
Contains(str, c) == \E j \in 1..Len(str) : SubSeq(str, j, j) = c
EndsWith(str, e) ==
    Len(str) >= Len(e) /\ SubSeq(str, Len(str) - Len(e) + 1, Len(str)) = e

\* a token of the log that went through a calendar unit (Y or M before the 'T')
IsCalendar(k) == ~k.inTime /\ k.u \in units
CalendarAt(lg) == {j \in 1..Len(lg) : IsCalendar(lg[j])}

\* the nanoseconds the calendar tokens before token j of lg resolved to
RECURSIVE Advanced(_, _)
Advanced(lg, j) ==
    IF j <= 1 THEN << >>
    ELSE BigAdd(Advanced(lg, j - 1),
                IF IsCalendar(lg[j - 1]) THEN Resolved(lg, j - 1) ELSE << >>)

\* the instant the provider o gave the call that wrote lg, which has a calendar token
Start(lg, o) == IF o.kind = "Const" THEN o.t ELSE lg[Min(CalendarAt(lg))].from

\* two calls were given the same instant by the same provider
SameStart ==
    /\ prev.opt = opt
    /\ \/ opt.kind = "Const"
       \/ CalendarAt(log) = {} /\ CalendarAt(prev.log) = {}
       \/ /\ CalendarAt(log) # {} /\ CalendarAt(prev.log) # {}
          /\ Start(log, opt) = Start(prev.log, prev.opt)

\* the first token of a shape has digits and a unit text that the table of
\* its section does not hold
UnknownUnitFirst(sh) ==
    /\ sh.kind = "tokens"
    /\ Tokens(sh) # << >>
    /\ Tokens(sh)[1].i # ""
    /\ Tokens(sh)[1].u # ""
    /\ IF sh.date # << >> THEN Tokens(sh)[1].u \notin DOMAIN dateUnit \cup units
       ELSE Tokens(sh)[1].u \notin DOMAIN timeUnits

\* 30732h30m17s and 30756h30m17s
Hours30732 == I64(FALSE, Nanos(0, 30732, 30, 17, 0))
Hours30756 == I64(FALSE, Nanos(0, 30756, 30, 17, 0))

(***************************************************************************)
(* The properties.                                                         *)
(***************************************************************************)

\* C1: parsing what FormatDuration(t) returned gives t back with no error,
\* for every t (zero, the minimum and the maximum among them) and whatever
\* reference instant the call is given.
RoundTrip ==
    (shape.kind = "formatted" /\ pc \in {"done", "panic"}) =>
        (pc = "done" /\ ret = [value |-> shape.t, err |-> "nil"])

\* a round trip of the minimum int64 under a reference of the caller's has returned
RoundTripMin ==
    /\ Returned
    /\ shape.kind = "formatted"
    /\ shape.t = I64(TRUE, Two63)
    /\ shape.text = "-P106751DT23H47M16.854775808S"
    /\ opt = Const(T2006)

\* C2: with fixed-length units, a call that returns no error has resolved no
\* token and reached no running total beyond the largest magnitude of its
\* sign, and the value it returns is the sign times the exact sum of the
\* nanoseconds its tokens resolved to: never a wrapped value.
NoWrappedValue ==
    (Returned /\ FixedUnitShape(shape) /\ ret.err = "nil") =>
        /\ \A j \in 1..Len(log) :
               /\ BigLe(Resolved(log, j), Bound(shape.sign = "-"))
               /\ BigLe(ResolvedSum(log, j), Bound(shape.sign = "-"))
        /\ ret.value = I64(shape.sign = "-", ResolvedSum(log, Len(log)))

\* C3: no call aborts: each returns a value or an error, and "PT" and "P1DT",
\* a 'T' with nothing after it, return ErrInvalidDuration.
NeverAborts ==
    /\ pc # "panic"
    /\ (Returned /\ shape.text \in {"PT", "P1DT"}) => ret.err = "ErrInvalidDuration"

\* C4: a well-formed input of fixed-length units whose exact total fits
\* returns, with no error, the sign times the exact sum of its tokens (the
\* whole nanoseconds of it), whatever the reference instant.
FixedUnitSum ==
    (pc \in {"done", "panic"} /\ WellFormedFixed(shape) /\ Fits(shape)) =>
        (pc = "done" /\ ret = [value |-> ExactValue(shape), err |-> "nil"])

\* C5: FormatDuration(t) is the canonical text of t: the sign, 'P', the days
\* if any, then 'T' and the hours, minutes and seconds that are not zero, the
\* seconds token there only if seconds or nanoseconds are not zero; zero is "PT0S".
CanonicalFormat == fmtOut # "" => fmtOut = Canonical(fmtIn)

\* 25 hours were formatted, as "P1DT1H"
Formatted25Hours == fmtIn = I64(FALSE, Nanos(1, 1, 0, 0, 0)) /\ fmtOut = "P1DT1H"

\* C6: each of "", "1D", "P", "P1" and "P.D" returns an error.
MalformedRejected ==
    (Returned /\ shape.text \in {"", "1D", "P", "P1", "P.D"}) => ret.err # "nil"

\* C7: digits followed by a unit text that the table in force does not hold
\* ("P1H", "PT1D", "P1X") fail with ErrUnknownUnit, not with ErrMissingUnit.
UnknownUnitKind ==
    (Returned /\ UnknownUnitFirst(shape)) => ret.err = "ErrUnknownUnit"

\* C8, as stated: whenever the text FormatDuration returns contains 'T', it
\* ends with a seconds token.
SecondsTokenAlways ==
    (fmtOut # "" /\ Contains(fmtOut, "T")) => EndsWith(fmtOut, "S")

\* C8, amended: when the text contains 'T', it ends with the seconds token
\* exactly when the seconds or the nanoseconds of t are not zero or t is zero
\* (whose text is "PT0S"); otherwise it ends with the hours or minutes token.
SecondsTokenWhenNeeded ==
    (fmtOut # "" /\ Contains(fmtOut, "T")) =>
        LET p == Parts(fmtIn.mag)
        IN  IF fmtIn = I64Zero \/ p.seconds + p.nanos > 0
            THEN /\ \E c \in {"T", "H", "M"} : EndsWith(fmtOut, c \o SecondsToken(p))
                 /\ fmtIn # I64Zero => ~EndsWith(fmtOut, "T0S")
            ELSE EndsWith(fmtOut, "H") \/ EndsWith(fmtOut, "M")

\* one hour was formatted: a text with a 'T' and no seconds token
FormattedOneHour ==
    /\ fmtIn = I64(FALSE, Hour)
    /\ Contains(fmtOut, "T")
    /\ ~EndsWith(fmtOut, "S")

\* C9: "P3Y6M4DT12H30M17S" with the zero instant as reference returns
\* 30732h30m17s, less than the 30756h30m17s it returns with 2006-01-02T15:04:05Z.
ZeroReference ==
    (Returned /\ shape.text = "P3Y6M4DT12H30M17S") =>
        /\ opt = Const(ZeroTime) => ret = [value |-> Hours30732, err |-> "nil"]
        /\ opt = Const(T2006) => ret = [value |-> Hours30756, err |-> "nil"]

====
